---- MODULE Spec2Model ----
(***************************************************************************)
(* Spotify -> Last.fm scrobbler (spotify_lastfm_scrobbler.py).             *)
(*                                                                         *)
(* Spec       : the CLI pipeline of main(): signature, resume state, the   *)
(*              batch loop and save_state, over several invocations that   *)
(*              may be killed, with the inputs and arguments changing      *)
(*              between invocations.                                       *)
(* SpecSubmit : the request / retry / backoff loop of submit_batch, for    *)
(*              consecutive batches of one run.                            *)
(* SpecState  : save_state and load_state on the state file, with kills.   *)
(* SpecPrep   : main()'s de-duplication, sort, limit, import mode and the  *)
(*              parameters of the request.                                 *)
(* SpecTs     : compute_start_timestamp on one entry.                      *)
(* SpecGui    : ScrobbleGUI (spotify_lastfm_scrobbler_gui.py): the Tk      *)
(*              thread and the thread that runs _worker_start.             *)
(*                                                                         *)
(* Records are named by their index in the sorted, de-duplicated list      *)
(* `unique` that main() builds from the current inputs and date filters.   *)
(* md5_hex is taken to be collision free: a signature is modelled by the   *)
(* list of parts that dataset_signature() hashes.                          *)
(***************************************************************************)
EXTENDS Integers, Sequences, FiniteSets, TLC

\* ------------------------------------------------------------------ bounds
MaxRecords == 120
SmallLimit == 60
PartialAccepted == 30
MaxRuns == 2
MaxChanges == 1
MaxSends == 9
SmallMaxAttempts == 3

\* ------------------------------------------------------- program constants
BATCH == 50
BACKOFF_START == 30
BACKOFF_CAP == 3600
MIDNIGHT_AFTER == 6
RETRY_AFTER_FLOOR == 5
NET_WAIT_STEP == 5
NET_WAIT_CAP == 300
MIDNIGHT_MIN_WAIT == 60
DAY == 86400
MAX_ATTEMPTS_DEFAULT == 1000000

None == "None"
NoFile == [present |-> FALSE]
\* args.limit: NoLimit for None, <<n>> for --limit n
NoLimit == <<>>

Min(a, b) == IF a <= b THEN a ELSE b
Max(a, b) == IF a >= b THEN a ELSE b
Range(s) == {s[k] : k \in 1..Len(s)}

VARIABLES
    \* the environment of an invocation
    since, until,          \* --since / --until: None or a date string
    st_size, st_mtime_ms,  \* stat() of the input path; st_mtime in milliseconds
    nrec,                  \* length of `unique` the current inputs and filters yield
    stateFile,             \* NoFile, or the JSON object save_state() wrote
    \* main()
    pc, limit, sig, resume_offset, total_all, total, i, submitted, res,
    dry,                   \* args.dry_run of the run
    \* the service and the history of the runs
    acc,                   \* records the service has accepted
    resent,                \* a request carried a record the service had accepted
    lastSent,              \* records of the last request of this run
    runs, changes,
    fileAtRunStart, lastSave, savedThisRun,
    zeroStarts, prevZeroStarts, runCfg,
    \* submit_batch()
    sb_pc, batch_len, dry_run, max_attempts, attempt, consec_429, backoff,
    result,
    lastResp,              \* the kind of the last response
    lastWaits,             \* the sleeps of the last pass of the loop, in order
    pureRL,                \* every response so far was a rate limit without a hint
    warned,                \* the call printed its "Warning: ..." line
    net_fails,             \* the transport failures of the call so far
    streak,                \* the rate-limit responses in a row up to the last response
    lastHint,              \* the Retry-After header of the last rate-limit response
    \* save_state() / load_state() and the files they touch
    state_path,            \* args.state_file as <<stem, suffix>>
    fs,                    \* the content of each path
    sv_pc, sv_old, sv_new, saves,
    loads,                 \* runs that have read the state file
    ld_out,                \* what line 599 made of the file: aborted, or an offset
    \* main(), lines 611-657, and _worker_start, lines 220-256: from the candidates
    \* to the first request
    frontend,              \* "cli" (main) or "gui" (_worker_start)
    entries,               \* the candidates, in ingestion order
    since_str, until_str,  \* the date filters as typed, or None
    limit_s,               \* the limit as typed, "" when absent
    import_mode, gap_sec, finish_at,
    p_off,                 \* the resume offset of this run
    wall,                  \* the wall clock, in seconds
    p_pc,
    cand_ts,               \* per candidate, the start_ts computed in the dedup loop
    in_range,              \* per candidate, what within_range answered
    unique,                \* the working set, as indices into entries
    sort_key,              \* per candidate, the start_ts computed as the sort key
    finish_ts,             \* what parse_finish_at answered
    overrides,             \* per record of the tail, its _ts_override
    req_ts,                \* per record of the tail, timestamp[i] of the request
    \* ScrobbleGUI: the Tk thread and the thread of _worker_start
    g_pc,                  \* where the worker thread is, "none" when there is none
    btn_start,             \* the state of the Start button
    progress,              \* the value of the progress bar
    txt,                   \* the lines in the output Text widget
    ui_dry_run, ui_since,  \* the Tk variables behind two of the input fields
    edits, starts,
    g_total, g_i,          \* the worker's total and loop index
    g_dry,                 \* the dry_run value of the worker's last submit_batch call
    worker_reads,          \* the Tk variables read from the worker thread
    worker_touched         \* the widgets and Tk variables written from the worker thread

envVars  == <<since, until, st_size, st_mtime_ms, nrec>>
mainVars == <<pc, limit, dry, sig, resume_offset, total_all, total, i, submitted, res>>
histVars == <<acc, resent, lastSent, runs, changes, fileAtRunStart, lastSave,
              savedThisRun, zeroStarts, prevZeroStarts, runCfg>>
sbVars   == <<sb_pc, batch_len, dry_run, max_attempts, attempt, consec_429, backoff,
              result, lastResp, lastWaits, pureRL, warned, net_fails, streak, lastHint>>
fsVars   == <<state_path, fs, sv_pc, sv_old, sv_new, saves, loads, ld_out>>
coreVars == <<envVars, stateFile, mainVars, histVars, sbVars>>
prepVars == <<frontend, entries, since_str, until_str, limit_s, import_mode, gap_sec,
              finish_at, p_off, wall, p_pc, cand_ts, in_range, unique, sort_key,
              finish_ts, overrides, req_ts>>
guiVars  == <<g_pc, btn_start, progress, txt, ui_dry_run, ui_since, edits, starts,
              g_total, g_i, g_dry, worker_reads, worker_touched>>
auxVars  == <<fsVars, prepVars, guiVars>>
vars     == <<coreVars, auxVars>>

\* --------------------------------------------------------------- utilities

\* `x or ''`
OrEmpty(x) == IF x = None THEN "" ELSE x

\* int(st.st_mtime): the float seconds truncated
IntMtime(ms) == ms \div 1000

\* a signature that also hashes the run's --limit
dataset_signature_with_limit(s, u, size, mtime_ms) ==
    <<"SINCE=" \o OrEmpty(s), "UNTIL=" \o OrEmpty(u), size, IntMtime(mtime_ms), limit>>

\* dataset_signature(paths, since, until) for the one input path
dataset_signature(s, u, size, mtime_ms) ==
    <<"SINCE=" \o OrEmpty(s), "UNTIL=" \o OrEmpty(u), size, IntMtime(mtime_ms)>>

\* load_state(path): the object, {} when the file cannot be read
load_state(f) == f

\* resume_offset = int(state.get("offset") or 0) if state.get("sig") == sig else 0
StartOffset(state, sg) ==
    IF state.present /\ state.sig = sg THEN state.offset ELSE 0

\* unique after `unique = unique[: max(0, args.limit)]`, as the list of its indexes
Unique(n, lim) ==
    LET m == IF lim = NoLimit THEN n ELSE Min(n, Max(0, lim[1]))
    IN  [k \in 1..m |-> k - 1]

\* a tail that forgets the resume offset: tail = unique
TailWhole(uniq, off) == uniq

\* tail = unique[resume_offset:]
TailOf(uniq, off) == SubSeq(uniq, off + 1, Len(uniq))

\* a slice that reaches one record into the next one: tail[i : i + 51]
BatchOfWide(tl, j) == SubSeq(tl, j + 1, Min(j + BATCH + 1, Len(tl)))

\* batch = tail[i : i + 50]
BatchOf(tl, j) == SubSeq(tl, j + 1, Min(j + BATCH, Len(tl)))

\* a save after every batch: if accepted >= 0:
SaveAlways(accepted) == accepted >= 0

\* a dry run that reports the whole batch as accepted
DryRunAccepts(n) == [accepted |-> n, ignored |-> 0]

\* return {"accepted": 0, "ignored": len(batch)}
DryRunResult(n) == [accepted |-> 0, ignored |-> n]

\* if accepted > 0:
ShouldSave(accepted) == accepted > 0

\* "offset": resume_offset + i + accepted
SavedOffset(off, j, accepted) == off + j + accepted

\* the object main() hands to save_state; wsize and wmtime_ms are not in the file:
\* they record the stat() of the input at the run that wrote it
StateObject(off, j, accepted) ==
    [present |-> TRUE, sig |-> sig, offset |-> SavedOffset(off, j, accepted),
     since |-> since, until |-> until, wsize |-> st_size, wmtime_ms |-> st_mtime_ms]

CurBatch == BatchOf(TailOf(Unique(nrec, limit), resume_offset), i)

Cfg == <<since, until, st_size, st_mtime_ms>>

\* ------------------------------------------------------------ Spec: main()

Limits == {NoLimit, <<SmallLimit>>}
RecordCounts == {MaxRecords, SmallLimit}
\* what a rewrite of the input file does to <<st_size, st_mtime (ms)>>: same size
\* half a second later, one byte more a second later, one byte more at once
InputChanges == {<<0, 500>>, <<1, 1000>>, <<1, 0>>}
Sinces == {None, "2024-02-01"}
Untils == {None, "2024-03-01"}

\* the `accepted` counts the service is let to answer for a request of n records
AcceptedChoices(n) == {0, n} \cup (IF PartialAccepted < n THEN {PartialAccepted} ELSE {})

\* the records the service accepts when it answers accepted = a: the code is told
\* only the count; the service ignores either the last or the first records
AcceptedRecords(b, a, side) ==
    IF side = "first" THEN Range(SubSeq(b, 1, a))
    ELSE Range(SubSeq(b, Len(b) - a + 1, Len(b)))

Running == pc \in {"loop", "responded"}

NoResult == [accepted |-> 0, ignored |-> 0]
NoHint == [k |-> "absent", v |-> 0]

InitSubmitIdle ==
    /\ sb_pc = "idle" /\ batch_len = 0 /\ dry_run = FALSE /\ max_attempts = 0
    /\ attempt = 0 /\ consec_429 = 0 /\ backoff = 0
    /\ result = NoResult /\ lastResp = None /\ lastWaits = <<>> /\ pureRL = TRUE
    /\ warned = FALSE /\ net_fails = 0 /\ streak = 0 /\ lastHint = NoHint

\* a file's content: kind is "missing", "unreadable", "partial" (text that is not
\* valid JSON, as a write cut short leaves it), "nonobject" (valid JSON that is a
\* list, a number, a string or null) or "object"; of an object, sig is "match"
\* (the current run's signature), "other", "absent" or "wrongtype", and offset is
\* an "int", "absent", "null", a "numstr" ("12"), a "float" (12.7: oval holds its
\* integer part), a "text" ("ab") or a "list" ([1])
Content(k, sg, ok, ov) == [kind |-> k, sig |-> sg, okind |-> ok, oval |-> ov]
Missing == Content("missing", "absent", "absent", 0)
Partial == Content("partial", "absent", "absent", 0)

StatePaths == {<<"lastfm_resume_state", ".json">>, <<"progress", ".tmp">>}

\* path.with_suffix(".tmp")
with_suffix(path, suffix) == <<path[1], suffix>>

AllPaths == StatePaths \cup {with_suffix(q, ".tmp") : q \in StatePaths}

InitFsIdle ==
    /\ state_path = <<"lastfm_resume_state", ".json">>
    /\ fs = [q \in AllPaths |-> Missing]
    /\ sv_pc = "off" /\ sv_old = Missing /\ sv_new = Missing /\ saves = 0 /\ loads = 0
    /\ ld_out = [aborted |-> FALSE, offset |-> 0]

\* the clock when a run reaches its dedup loop: 2024-02-15T12:00:00Z
NowStart == 1707998400

InitPrepIdle ==
    /\ frontend = "cli" /\ entries = <<>> /\ since_str = None /\ until_str = None
    /\ limit_s = "" /\ import_mode = FALSE /\ gap_sec = 1 /\ finish_at = "now"
    /\ p_off = 0 /\ wall = NowStart /\ p_pc = "off"
    /\ cand_ts = <<>> /\ in_range = <<>> /\ unique = <<>> /\ sort_key = <<>>
    /\ finish_ts = 0 /\ overrides = <<>> /\ req_ts = <<>>

InitGuiIdle ==
    /\ g_pc = "none" /\ btn_start = "normal" /\ progress = 0 /\ txt = 0
    /\ ui_dry_run = FALSE /\ ui_since = "" /\ edits = 0 /\ starts = 0
    /\ g_total = 0 /\ g_i = 0 /\ g_dry = FALSE
    /\ worker_reads = {} /\ worker_touched = {}

InitAuxIdle == InitFsIdle /\ InitPrepIdle /\ InitGuiIdle

InitMain ==
    /\ since = None /\ until = None /\ st_size = 1000 /\ st_mtime_ms = 1000
    /\ nrec = MaxRecords
    /\ stateFile = NoFile
    /\ pc = "idle" /\ limit = NoLimit /\ dry = FALSE /\ sig = <<>> /\ resume_offset = 0
    /\ total_all = 0 /\ total = 0 /\ i = 0 /\ submitted = 0 /\ res = 0
    /\ acc = {} /\ resent = FALSE /\ lastSent = {}
    /\ runs = 0 /\ changes = 0
    /\ fileAtRunStart = NoFile /\ lastSave = NoFile /\ savedThisRun = FALSE
    /\ zeroStarts = {} /\ prevZeroStarts = {} /\ runCfg = <<>>

Init == InitMain /\ InitSubmitIdle /\ InitAuxIdle

\* main(), lines 596-657: signature, load_state, resume offset, limit, tail
StartRun ==
    /\ ~Running
    /\ runs < MaxRuns
    /\ \E lim \in Limits :
         LET sg   == dataset_signature(since, until, st_size, st_mtime_ms)
             off  == StartOffset(load_state(stateFile), sg)
             uniq == Unique(nrec, lim)
             tl   == TailOf(uniq, off)
         IN  /\ limit' = lim
             /\ sig' = sg
             /\ resume_offset' = off
             /\ total_all' = Len(uniq)
             /\ total' = Len(tl)
             /\ pc' = IF Len(tl) > 0 THEN "loop" ELSE "done"
    /\ dry' \in BOOLEAN
    /\ i' = 0 /\ submitted' = 0 /\ res' = 0
    /\ runs' = runs + 1
    /\ fileAtRunStart' = stateFile /\ lastSave' = stateFile /\ savedThisRun' = FALSE
    /\ prevZeroStarts' = (IF runCfg = Cfg THEN zeroStarts ELSE {})
    /\ zeroStarts' = {} /\ runCfg' = Cfg /\ lastSent' = {}
    /\ UNCHANGED <<auxVars, envVars, stateFile, acc, resent, changes, sbVars>>

\* lines 660-672: submit_batch on tail[i : i + 50]: the dry-run answer, else the
\* request reaches the service, which answers with its accepted count
Send ==
    /\ pc = "loop"
    /\ LET b == CurBatch
       IN  IF dry
           THEN /\ res' = DryRunResult(Len(b)).accepted
                /\ UNCHANGED <<acc, resent, lastSent>>
           ELSE \E a \in AcceptedChoices(Len(b)), side \in {"first", "last"} :
                  /\ res' = a
                  /\ acc' = acc \cup AcceptedRecords(b, a, side)
                  /\ resent' = (resent \/ (Range(b) \cap acc # {}))
                  /\ lastSent' = Range(b)
    /\ pc' = "responded"
    /\ UNCHANGED <<auxVars, envVars, stateFile, limit, dry, sig, resume_offset, total_all, total, i,
                   submitted, runs, changes, fileAtRunStart, lastSave, savedThisRun,
                   zeroStarts, prevZeroStarts, runCfg, sbVars>>

\* lines 673-690: submit_batch returned; save_state when accepted > 0; next i
BatchReturns ==
    /\ pc = "responded"
    /\ LET accepted == res
       IN  IF ShouldSave(accepted)
           THEN /\ submitted' = submitted + accepted
                /\ stateFile' = StateObject(resume_offset, i, accepted)
                /\ lastSave' = StateObject(resume_offset, i, accepted)
                /\ savedThisRun' = TRUE
                /\ UNCHANGED zeroStarts
           ELSE /\ zeroStarts' = zeroStarts \cup {resume_offset + i}
                /\ UNCHANGED <<submitted, stateFile, lastSave, savedThisRun>>
    /\ IF i + BATCH < total
       THEN i' = i + BATCH /\ pc' = "loop"
       ELSE i' = i /\ pc' = "done"
    /\ UNCHANGED <<auxVars, envVars, limit, dry, sig, resume_offset, total_all, total, res,
                   acc, resent, lastSent, runs, changes, fileAtRunStart,
                   prevZeroStarts, runCfg, sbVars>>

\* a handler that, when submit_batch raises, records the batch as done
BatchRaisesSaving ==
    /\ Running
    /\ ~dry
    /\ pc' = "aborted"
    /\ stateFile' = StateObject(resume_offset, i, Len(CurBatch))
    /\ UNCHANGED <<auxVars, envVars, limit, dry, sig, resume_offset, total_all, total, i,
                   submitted, res, histVars, sbVars>>

\* submit_batch raises (line 499, or an exception it does not catch; a dry run
\* returns before the loop): main() has no handler, the exception ends the run
BatchRaises ==
    /\ Running
    /\ ~dry
    /\ pc' = "aborted"
    /\ UNCHANGED <<auxVars, envVars, stateFile, limit, dry, sig, resume_offset, total_all, total, i,
                   submitted, res, histVars, sbVars>>

\* the process is killed, before the request or between the answer and save_state
Kill ==
    /\ Running
    /\ pc' = "killed"
    /\ UNCHANGED <<auxVars, envVars, stateFile, limit, dry, sig, resume_offset, total_all, total, i,
                   submitted, res, histVars, sbVars>>

\* between two invocations the input file is rewritten: another size, a later
\* modification time, other records
ChangeInput ==
    /\ ~Running
    /\ runs > 0
    /\ changes < MaxChanges
    /\ \E d \in InputChanges :
         /\ st_size' = st_size + d[1]
         /\ st_mtime_ms' = st_mtime_ms + d[2]
    /\ nrec' \in RecordCounts
    /\ acc' = {} /\ resent' = FALSE
    /\ changes' = changes + 1
    /\ UNCHANGED <<auxVars, since, until, stateFile, mainVars, lastSent, runs, fileAtRunStart,
                   lastSave, savedThisRun, zeroStarts, prevZeroStarts, runCfg, sbVars>>

\* between two invocations the user gives other --since / --until values
ChangeFilter ==
    /\ ~Running
    /\ runs > 0
    /\ changes < MaxChanges
    /\ \E s \in Sinces, u \in Untils :
         /\ <<s, u>> # <<since, until>>
         /\ since' = s /\ until' = u
    /\ nrec' \in RecordCounts
    /\ acc' = {} /\ resent' = FALSE
    /\ changes' = changes + 1
    /\ UNCHANGED <<auxVars, st_size, st_mtime_ms, stateFile, mainVars, lastSent, runs,
                   fileAtRunStart, lastSave, savedThisRun, zeroStarts, prevZeroStarts,
                   runCfg, sbVars>>

Next ==
    \/ StartRun
    \/ Send
    \/ BatchReturns
    \/ BatchRaises
    \/ Kill
    \/ ChangeInput
    \/ ChangeFilter

Spec == Init /\ [][Next]_vars

\* --------------------------------------------------- SpecSubmit: submit_batch()

\* wait = min(3600, int(backoff))
RateLimitWait(b) == Min(BACKOFF_CAP, b)

\* a backoff that grows by its first value instead of doubling
NextBackoffLinear(b) == Min(BACKOFF_CAP, b + BACKOFF_START)

\* backoff = min(3600, int(backoff * 2))
NextBackoff(b) == Min(BACKOFF_CAP, b * 2)

\* wait = max(5, int(float(retry_after)))
HintWait(v) == Max(RETRY_AFTER_FLOOR, v)

\* wait = min(300, 5 * attempt)
NetWait(n) == Min(NET_WAIT_CAP, NET_WAIT_STEP * n)

\* if consec_429 >= 6:
MidnightDue(c) == c >= MIDNIGHT_AFTER

\* if attempt >= max_attempts: raise
AttemptsExhausted(n, ceiling) == n >= ceiling

\* seconds_until_next_utc_midnight() at `now`: now[1] the second of the UTC day,
\* now[2] = 1 when the clock shows a fraction of a second
seconds_until_next_utc_midnight(now) ==
    Max(MIDNIGHT_MIN_WAIT, DAY - now[1] - now[2])

Clocks == {<<0, 0>>, <<43200, 1>>, <<86399, 0>>, <<86399, 1>>}

\* the Retry-After header of a 429 response: absent, a number of seconds, or text
\* that float() does not parse (an HTTP date)
RetryAfters ==
    {[k |-> "absent", v |-> 0], [k |-> "num", v |-> 0], [k |-> "num", v |-> 120],
     [k |-> "text", v |-> 0]}

Slept(why, secs) == [why |-> why, secs |-> secs]

InitSubmit ==
    /\ InitMain /\ InitAuxIdle
    /\ sb_pc = "start"
    /\ batch_len \in {1, BATCH}
    /\ dry_run \in BOOLEAN
    /\ max_attempts \in {SmallMaxAttempts, MAX_ATTEMPTS_DEFAULT}
    /\ attempt = 0 /\ consec_429 = 0 /\ backoff = 0
    /\ result = NoResult /\ lastResp = None /\ lastWaits = <<>> /\ pureRL = TRUE
    /\ warned = FALSE /\ net_fails = 0 /\ streak = 0 /\ lastHint = NoHint

\* lines 414-423: the dry-run return, else the loop's initial values
SbStart ==
    /\ sb_pc = "start"
    /\ IF dry_run
       THEN /\ sb_pc' = "returned"
            /\ result' = DryRunResult(batch_len)
            /\ UNCHANGED <<attempt, consec_429, backoff>>
       ELSE /\ sb_pc' = "send"
            /\ attempt' = 0 /\ consec_429' = 0 /\ backoff' = BACKOFF_START
            /\ UNCHANGED result
    /\ warned' = FALSE /\ net_fails' = 0 /\ streak' = 0 /\ lastHint' = NoHint
    /\ UNCHANGED <<auxVars, envVars, stateFile, mainVars, histVars, batch_len, dry_run,
                   max_attempts, lastResp, lastWaits, pureRL>>

\* `while True: attempt += 1` and the request
Pass ==
    /\ sb_pc = "send"
    /\ attempt < MaxSends
    /\ attempt' = attempt + 1

\* lines 445-452 and 463-469: sleep `wait`, then the midnight sleep and the reset
\* of the counter once 6 rate limits came in a row
RateLimitSleeps(wait) ==
    LET c == consec_429 + 1
    IN  \E now \in Clocks :
          IF MidnightDue(c)
          THEN /\ lastWaits' = <<Slept("rate", wait),
                                 Slept("midnight", seconds_until_next_utc_midnight(now))>>
               /\ consec_429' = 0
          ELSE /\ lastWaits' = <<Slept("rate", wait)>>
               /\ consec_429' = c

\* lines 436-452: HTTP 429
SbHttp429 ==
    /\ Pass
    /\ \E ra \in RetryAfters :
         /\ lastResp' = "http429"
         /\ lastHint' = ra
         /\ pureRL' = (pureRL /\ ra.k = "absent")
         /\ CASE ra.k = "absent" ->
                   /\ RateLimitSleeps(RateLimitWait(backoff))
                   /\ backoff' = NextBackoff(backoff)
                   /\ UNCHANGED sb_pc
              [] ra.k = "num" ->
                   /\ RateLimitSleeps(HintWait(ra.v))
                   /\ UNCHANGED <<backoff, sb_pc>>
              [] ra.k = "text" ->
                   \* int(float(...)) raises ValueError, which nothing catches
                   /\ sb_pc' = "raised"
                   /\ consec_429' = consec_429 + 1
                   /\ lastWaits' = <<>>
                   /\ UNCHANGED backoff
    /\ streak' = streak + 1
    /\ UNCHANGED <<auxVars, envVars, stateFile, mainVars, histVars, batch_len, dry_run,
                   max_attempts, result, warned, net_fails>>

\* the error = 29 branch with a backoff that starts over after the midnight sleep
SbError29Resetting ==
    /\ Pass
    /\ lastResp' = "error29"
    /\ \E ra \in RetryAfters :
         /\ lastHint' = ra
         /\ pureRL' = (pureRL /\ ra.k = "absent")
    /\ RateLimitSleeps(RateLimitWait(backoff))
    /\ backoff' = IF MidnightDue(consec_429 + 1) THEN BACKOFF_START ELSE NextBackoff(backoff)
    /\ streak' = streak + 1
    /\ UNCHANGED <<auxVars, envVars, stateFile, mainVars, histVars, sb_pc, batch_len, dry_run,
                   max_attempts, result, warned, net_fails>>

\* lines 457-469: a 200 response whose body carries error = 29; the response's
\* Retry-After header, if it has one, is not read
SbError29 ==
    /\ Pass
    /\ lastResp' = "error29"
    /\ \E ra \in RetryAfters :
         /\ lastHint' = ra
         /\ pureRL' = (pureRL /\ ra.k = "absent")
    /\ RateLimitSleeps(RateLimitWait(backoff))
    /\ backoff' = NextBackoff(backoff)
    /\ streak' = streak + 1
    /\ UNCHANGED <<auxVars, envVars, stateFile, mainVars, histVars, sb_pc, batch_len, dry_run,
                   max_attempts, result, warned, net_fails>>

\* lines 496-503: requests.RequestException, raised by lastfm_post (transport) or by
\* resp.raise_for_status() (requests.HTTPError is a RequestException)
SbRequestException ==
    /\ Pass
    /\ \E kind \in {"network_error", "http_error"} :
         /\ lastResp' = kind
         /\ net_fails' = IF kind = "network_error" THEN net_fails + 1 ELSE net_fails
    /\ IF AttemptsExhausted(attempt + 1, max_attempts)
       THEN sb_pc' = "raised" /\ lastWaits' = <<>>
       ELSE sb_pc' = "send" /\ lastWaits' = <<Slept("net", NetWait(attempt + 1))>>
    /\ pureRL' = FALSE /\ streak' = 0 /\ lastHint' = NoHint
    /\ UNCHANGED <<auxVars, envVars, stateFile, mainVars, histVars, batch_len, dry_run,
                   max_attempts, consec_429, backoff, result, warned>>

\* the values of scrobbles.@attr.accepted a response body carries for a request of
\* n records: int(attr.get("accepted") or 0) takes the number as it is written
ReportedCounts(n) == AcceptedChoices(n) \cup {n + 1}

\* a structured answer that raises when nothing was accepted
SbStructuredStrict ==
    /\ Pass
    /\ lastResp' = "scrobbles"
    /\ \E a \in ReportedCounts(batch_len) :
         /\ result' = [accepted |-> a, ignored |-> Max(0, batch_len - a)]
         /\ sb_pc' = IF a = 0 THEN "raised" ELSE "returned"
         /\ warned' = FALSE
    /\ lastWaits' = <<>> /\ pureRL' = FALSE /\ streak' = 0 /\ lastHint' = NoHint
    /\ UNCHANGED <<auxVars, envVars, stateFile, mainVars, histVars, batch_len, dry_run,
                   max_attempts, consec_429, backoff, net_fails>>

\* lines 472-487: the structured answer, scrobbles.@attr.accepted / .ignored; the
\* warning of line 486 when accepted is 0
SbStructured ==
    /\ Pass
    /\ lastResp' = "scrobbles"
    /\ \E a \in ReportedCounts(batch_len) :
         /\ result' = [accepted |-> a, ignored |-> Max(0, batch_len - a)]
         /\ warned' = (a = 0)
    /\ sb_pc' = "returned" /\ lastWaits' = <<>> /\ pureRL' = FALSE
    /\ streak' = 0 /\ lastHint' = NoHint
    /\ UNCHANGED <<auxVars, envVars, stateFile, mainVars, histVars, batch_len, dry_run,
                   max_attempts, consec_429, backoff, net_fails>>

\* lines 489-491: the legacy answer, lfm.status = ok
SbLegacyOk ==
    /\ Pass
    /\ lastResp' = "legacy_ok"
    /\ result' = [accepted |-> batch_len, ignored |-> 0]
    /\ sb_pc' = "returned" /\ lastWaits' = <<>> /\ pureRL' = FALSE
    /\ warned' = FALSE /\ streak' = 0 /\ lastHint' = NoHint
    /\ UNCHANGED <<auxVars, envVars, stateFile, mainVars, histVars, batch_len, dry_run,
                   max_attempts, consec_429, backoff, net_fails>>

\* lines 493-494: any other JSON object, with its warning
SbUnexpected ==
    /\ Pass
    /\ lastResp' = "unexpected"
    /\ result' = [accepted |-> 0, ignored |-> batch_len]
    /\ sb_pc' = "returned" /\ lastWaits' = <<>> /\ pureRL' = FALSE
    /\ warned' = TRUE /\ streak' = 0 /\ lastHint' = NoHint
    /\ UNCHANGED <<auxVars, envVars, stateFile, mainVars, histVars, batch_len, dry_run,
                   max_attempts, consec_429, backoff, net_fails>>

MaxBatches == 2

\* main, lines 673-690, after submit_batch returned, and lines 659-672 of the next
\* pass of the loop: save_state when accepted > 0, then submit_batch on the next
\* slice, which exists only behind a full batch
SbNextBatch ==
    /\ sb_pc = "returned"
    /\ batch_len = BATCH
    /\ i + BATCH < MaxBatches * BATCH
    /\ LET accepted == result.accepted
       IN  /\ res' = accepted
           /\ IF ShouldSave(accepted)
              THEN /\ submitted' = submitted + accepted
                   /\ stateFile' = StateObject(resume_offset, i, accepted)
              ELSE UNCHANGED <<submitted, stateFile>>
    /\ i' = i + BATCH
    /\ batch_len' \in {1, BATCH}
    /\ sb_pc' = "start"
    /\ lastResp' = None /\ lastWaits' = <<>> /\ pureRL' = TRUE
    /\ UNCHANGED <<auxVars, envVars, pc, limit, dry, sig, resume_offset, total_all, total,
                   histVars, dry_run, max_attempts, attempt, consec_429, backoff, result,
                   warned, net_fails, streak, lastHint>>

NextSubmit ==
    \/ SbNextBatch
    \/ SbStart
    \/ SbHttp429
    \/ SbError29
    \/ SbRequestException
    \/ SbStructured
    \/ SbLegacyOk
    \/ SbUnexpected

SpecSubmit == InitSubmit /\ [][NextSubmit]_vars


\* ------------------------------------ SpecState: save_state() and load_state()

\* what the state file may hold when a run starts
FileContents ==
    {Missing, Partial, Content("unreadable", "absent", "absent", 0),
     Content("nonobject", "absent", "absent", 0)}
    \cup {Content("object", sg, "int", ov) :
            sg \in {"match", "other", "absent", "wrongtype"}, ov \in {0, 7}}
    \cup {Content("object", "match", ok, 0) : ok \in {"absent", "null", "text", "list"}}
    \cup {Content("object", "match", ok, 12) : ok \in {"numstr", "float"}}

\* load_state(path): json.loads(path.read_text()), {} on any exception
EmptyObject == Content("object", "absent", "absent", 0)

ParsedState(c) ==
    IF c.kind \in {"missing", "unreadable", "partial"} THEN EmptyObject ELSE c

\* line 599: int(state.get("offset") or 0) if state.get("sig") == sig else 0.
\* .get on a value that is no object raises AttributeError; int() of text raises
\* ValueError, of a list TypeError
ResumeFrom(state) ==
    IF state.kind # "object" THEN [aborted |-> TRUE, offset |-> 0]
    ELSE IF state.sig # "match" THEN [aborted |-> FALSE, offset |-> 0]
    ELSE IF state.okind \in {"text", "list"} THEN [aborted |-> TRUE, offset |-> 0]
    ELSE IF state.okind \in {"absent", "null"} THEN [aborted |-> FALSE, offset |-> 0]
    ELSE [aborted |-> FALSE, offset |-> state.oval]

\* tmp = path.with_suffix(".tmp")
TmpPath == with_suffix(state_path, ".tmp")

MaxSaves == 2
MaxLoads == 2

InitState ==
    /\ InitMain /\ InitSubmitIdle /\ InitPrepIdle /\ InitGuiIdle
    /\ state_path \in StatePaths
    /\ \E c \in FileContents :
         /\ fs = [q \in AllPaths |-> IF q = state_path THEN c ELSE Missing]
         /\ sv_old = c /\ sv_new = c
    /\ sv_pc = "start" /\ saves = 0 /\ loads = 0
    /\ ld_out = [aborted |-> FALSE, offset |-> 0]

\* lines 596-599 of a run: load_state, then the resume offset
StLoad ==
    /\ sv_pc \in {"start", "killed"}
    /\ loads < MaxLoads
    /\ loads' = loads + 1
    /\ saves' = 0
    /\ ld_out' = ResumeFrom(ParsedState(fs[state_path]))
    /\ sv_pc' = IF ResumeFrom(ParsedState(fs[state_path])).aborted
                THEN "aborted" ELSE "running"
    /\ UNCHANGED <<coreVars, prepVars, guiVars, state_path, fs, sv_old, sv_new>>

\* save_state, line 75, first half: tmp.write_text opens tmp for writing, which
\* empties it
StOpenTmp ==
    /\ sv_pc = "running"
    /\ saves < MaxSaves
    /\ \E a \in {1, BATCH} :
         sv_new' = Content("object", "match", "int",
                           SavedOffset(ld_out.offset, saves * BATCH, a))
    /\ saves' = saves + 1
    /\ sv_old' = fs[state_path]
    /\ fs' = [fs EXCEPT ![TmpPath] = Partial]
    /\ sv_pc' = "opened"
    /\ UNCHANGED <<coreVars, prepVars, guiVars, state_path, loads, ld_out>>

\* save_state, line 75, second half: the text is written and the file closed
StWriteTmp ==
    /\ sv_pc = "opened"
    /\ fs' = [fs EXCEPT ![TmpPath] = sv_new]
    /\ sv_pc' = "written"
    /\ UNCHANGED <<coreVars, prepVars, guiVars, state_path, sv_old, sv_new, saves, loads, ld_out>>

\* save_state, line 76: tmp.replace(path), a rename; of a path onto itself it
\* changes nothing
StReplace ==
    /\ sv_pc = "written"
    /\ fs' = IF TmpPath = state_path THEN fs
             ELSE [fs EXCEPT ![state_path] = fs[TmpPath], ![TmpPath] = Missing]
    /\ sv_pc' = "running"
    /\ UNCHANGED <<coreVars, prepVars, guiVars, state_path, sv_old, sv_new, saves, loads, ld_out>>

\* the process is killed inside save_state, or between two batches
StKill ==
    /\ sv_pc \in {"running", "opened", "written"}
    /\ sv_pc' = "killed"
    /\ UNCHANGED <<coreVars, prepVars, guiVars, state_path, fs, sv_old, sv_new, saves, loads, ld_out>>

NextState ==
    \/ StLoad
    \/ StOpenTmp
    \/ StWriteTmp
    \/ StReplace
    \/ StKill

SpecState == InitState /\ [][NextState]_vars

\* ------------------- SpecPrep: filter, dedup, sort, limit, import mode, request

MaxEntries == 2
WEEK == 7 * 24 * 3600

\* the fields datetime.fromisoformat reads out of a text; lex is FALSE when the
\* text has not the shape YYYY-MM-DD[THH:MM:SS[Z]]
IsoText(l, y, m, d, hh, mi, ss) ==
    [lex |-> l, y |-> y, m |-> m, d |-> d, hh |-> hh, mi |-> mi, ss |-> ss]

IsoFields(text) ==
    CASE text = "2024-02-01" -> IsoText(TRUE, 2024, 2, 1, 0, 0, 0)
      [] text = "2024-03-01" -> IsoText(TRUE, 2024, 3, 1, 0, 0, 0)
      [] text = "2024-02-30" -> IsoText(TRUE, 2024, 2, 30, 0, 0, 0)
      [] text = "2024-01-01T00:05:00Z" -> IsoText(TRUE, 2024, 1, 1, 0, 5, 0)
      [] text = "2024-02-01T00:00:30Z" -> IsoText(TRUE, 2024, 2, 1, 0, 0, 30)
      [] text = "2024-02-01T00:00:29Z" -> IsoText(TRUE, 2024, 2, 1, 0, 0, 29)
      [] text = "2024-03-01T00:00:30Z" -> IsoText(TRUE, 2024, 3, 1, 0, 0, 30)
      [] text = "2024-03-01T00:00:29Z" -> IsoText(TRUE, 2024, 3, 1, 0, 0, 29)
      [] OTHER -> IsoText(FALSE, 0, 0, 0, 0, 0, 0)

IsLeap(y) == (y % 4 = 0 /\ y % 100 # 0) \/ y % 400 = 0

DaysInMonth(y, m) ==
    IF m = 2 THEN (IF IsLeap(y) THEN 29 ELSE 28)
    ELSE IF m \in {4, 6, 9, 11} THEN 30 ELSE 31

\* days from 1970-01-01 to y-m-d of the proleptic Gregorian calendar
DaysFromCivil(y, m, d) ==
    LET yy  == IF m <= 2 THEN y - 1 ELSE y
        era == yy \div 400
        yoe == yy - era * 400
        mp  == (m + 9) % 12
        doy == (153 * mp + 2) \div 5 + d - 1
        doe == yoe * 365 + yoe \div 4 - yoe \div 100 + doy
    IN  era * 146097 + doe - 719468

\* datetime.fromisoformat(text) read as UTC, then .timestamp(): raises (ok FALSE)
\* on a text of another shape and on a day the month has not
fromisoformat(text) ==
    LET f == IsoFields(text)
        valid == /\ f.lex
                 /\ f.m \in 1..12 /\ f.d \in 1..DaysInMonth(f.y, f.m)
                 /\ f.hh \in 0..23 /\ f.mi \in 0..59 /\ f.ss \in 0..59
    IN  [ok |-> valid,
         epoch |-> IF valid
                   THEN DaysFromCivil(f.y, f.m, f.d) * DAY + f.hh * 3600 + f.mi * 60 + f.ss
                   ELSE 0]

\* parse_spotify_iso(ts)
parse_spotify_iso(ts) == fromisoformat(ts)

\* int(text), of the limit field
IntText(text) ==
    CASE text = "1" -> [ok |-> TRUE, n |-> 1]
      [] text = "2" -> [ok |-> TRUE, n |-> 2]
      [] OTHER -> [ok |-> FALSE, n |-> 0]

Abs(x) == IF x < 0 THEN 0 - x ELSE x

\* a record's ts: absent, a text, or a number of epoch seconds
TsAbsent == [k |-> "absent", v |-> "", n |-> 0]
TsText(t) == [k |-> "str", v |-> t, n |-> 0]
TsNum(x) == [k |-> "num", v |-> "", n |-> x]

\* a record's offline_timestamp: absent (or null), a number, or a text that int()
\* refuses
OffNone == [k |-> "none", n |-> 0]
OffInt(x) == [k |-> "int", n |-> x]
OffText == [k |-> "text", n |-> 0]

Entry(a, t, ts, ms, off) ==
    [artist |-> a, track |-> t, ts |-> ts, ms_played |-> ms, offline_timestamp |-> off]

\* lines 291-309: the start from ts and ms_played, before offline_timestamp is
\* looked at; a record without ts gets the clock as it is
StartFromTs(entry, clock) ==
    LET secs == entry.ms_played \div 1000
    IN  CASE entry.ts.k = "num" -> entry.ts.n - secs
          [] entry.ts.k = "str" ->
                (IF parse_spotify_iso(entry.ts.v).ok
                 THEN parse_spotify_iso(entry.ts.v).epoch
                 ELSE clock) - secs
          [] OTHER -> clock

\* `if off:` and `int(off)`: a number other than 0
OffUsable(offl) == offl.k = "int" /\ offl.n # 0

\* compute_start_timestamp with the window of 7 days taken exclusive
compute_start_timestamp_open(entry, clock) ==
    LET start == StartFromTs(entry, clock)
        offl  == entry.offline_timestamp
    IN  IF OffUsable(offl) /\ Abs(offl.n - start) < WEEK THEN offl.n ELSE start

\* compute_start_timestamp(entry), called when the clock reads clock
compute_start_timestamp(entry, clock) ==
    LET start == StartFromTs(entry, clock)
        offl  == entry.offline_timestamp
    IN  IF OffUsable(offl) /\ Abs(offl.n - start) <= WEEK THEN offl.n ELSE start

\* within_range with the upper bound taken inclusive
within_range_closed(ts_sec, since_s, until_s) ==
    /\ ~(since_s # None /\ fromisoformat(since_s).ok /\ ts_sec < fromisoformat(since_s).epoch)
    /\ ~(until_s # None /\ fromisoformat(until_s).ok /\ ts_sec > fromisoformat(until_s).epoch)

\* within_range(ts_sec, since_str, until_str): a bound that does not parse is
\* skipped (except Exception: pass)
within_range(ts_sec, since_s, until_s) ==
    /\ ~(since_s # None /\ fromisoformat(since_s).ok /\ ts_sec < fromisoformat(since_s).epoch)
    /\ ~(until_s # None /\ fromisoformat(until_s).ok /\ ts_sec >= fromisoformat(until_s).epoch)

\* the key of line 622, of candidate j whose start_ts was ts
DedupKey(j, ts) == <<entries[j].artist, entries[j].track, ts>>

\* the loop of lines 619-625 from candidate j on
RECURSIVE DedupFrom(_, _, _, _, _)
DedupFrom(j, seen, uniq, ts, inr) ==
    IF j > Len(entries) THEN uniq
    ELSE IF ~inr[j] THEN DedupFrom(j + 1, seen, uniq, ts, inr)
    ELSE IF DedupKey(j, ts[j]) \in seen THEN DedupFrom(j + 1, seen, uniq, ts, inr)
    ELSE DedupFrom(j + 1, seen \cup {DedupKey(j, ts[j])}, Append(uniq, j), ts, inr)

Front(s) == SubSeq(s, 1, Len(s) - 1)
Last(s) == s[Len(s)]

RECURSIVE InsertSorted(_, _, _)
InsertSorted(t, x, key) ==
    IF t = <<>> THEN <<x>>
    ELSE IF key[Last(t)] <= key[x] THEN Append(t, x)
    ELSE Append(InsertSorted(Front(t), x, key), Last(t))

\* list.sort(key=...): stable, ascending by the keys computed once per element
RECURSIVE SortBy(_, _)
SortBy(s, key) ==
    IF s = <<>> THEN <<>> ELSE InsertSorted(SortBy(Front(s), key), Last(s), key)

\* unique[: max(0, limit)]
Truncate(s, n) == SubSeq(s, 1, Min(Len(s), Max(0, n)))

\* parse_finish_at(s), called when the clock reads clock
parse_finish_at(text, clock) ==
    IF text = "now" THEN clock ELSE fromisoformat(text).epoch

\* apply_import_mode on n records: the overrides, in order
apply_import_mode(n, finish, gap_arg) ==
    LET gap      == Max(1, gap_arg)
        start_ts == finish - (n - 1) * gap
    IN  [k \in 1..n |-> start_ts + (k - 1)]

\* tail = unique[resume_offset:]
PrepTail(uniq) == SubSeq(uniq, p_off + 1, Len(uniq))

PrepEntries ==
    {Entry("A", "T", TsText("2024-02-01T00:00:30Z"), 30000, OffNone),
     Entry("A", "T", TsText("2024-02-01T00:00:29Z"), 30999, OffNone),
     Entry("A", "T", TsText("2024-03-01T00:00:30Z"), 30000, OffNone),
     Entry("A", "T", TsText("2024-03-01T00:00:29Z"), 30000, OffNone),
     Entry("A", "T", TsAbsent, 30000, OffNone),
     Entry("B", "T", TsText("yesterday"), 45000, OffNone)}

PrepSinces == {None, "2024-02-01", "02/01/2024"}
PrepUntils == {None, "2024-03-01", "2024-02-30"}
LimitTexts == {"", "1", "abc"}
GapSecs == {1, 60}
FinishAts == {"now", "2024-03-01"}

\* the clock may move on by a second between two readings
Ticks == {0, 1}

RECURSIVE SumTo(_, _)
SumTo(f, j) == IF j = 0 THEN 0 ELSE f[j] + SumTo(f, j - 1)

BadLimit == limit_s # "" /\ ~IntText(limit_s).ok

InitPrep ==
    /\ InitMain /\ InitSubmitIdle /\ InitFsIdle /\ InitGuiIdle
    /\ frontend \in {"cli", "gui"}
    /\ entries \in UNION {[1..n -> PrepEntries] : n \in 1..MaxEntries}
    /\ since_str \in PrepSinces /\ until_str \in PrepUntils
    /\ limit_s \in LimitTexts
    /\ import_mode \in (IF frontend = "cli" THEN BOOLEAN ELSE {FALSE})
    /\ gap_sec \in (IF import_mode THEN GapSecs ELSE {1})
    /\ finish_at \in (IF import_mode THEN FinishAts ELSE {"now"})
    /\ p_off \in (IF frontend = "cli" THEN {0, 1} ELSE {0})
    /\ wall = NowStart /\ p_pc = "start"
    /\ cand_ts = <<>> /\ in_range = <<>> /\ unique = <<>> /\ sort_key = <<>>
    /\ finish_ts = 0 /\ overrides = <<>> /\ req_ts = <<>>

prepIn == <<frontend, entries, since_str, until_str, limit_s, import_mode, gap_sec,
            finish_at, p_off>>

\* main, line 555: argparse's type=int refuses the text and exits
PrepReject ==
    /\ p_pc = "start"
    /\ frontend = "cli" /\ BadLimit
    /\ p_pc' = "rejected"
    /\ UNCHANGED <<coreVars, fsVars, guiVars, prepIn, wall, cand_ts, in_range, unique, sort_key,
                   finish_ts, overrides, req_ts>>

\* main, lines 617-631; _worker_start, lines 235-243: the dedup loop
PrepDedup ==
    /\ p_pc = "start"
    /\ ~(frontend = "cli" /\ BadLimit)
    /\ \E tick \in [1..Len(entries) -> Ticks] :
         LET ts  == [j \in 1..Len(entries) |->
                        compute_start_timestamp(entries[j], wall + SumTo(tick, j))]
             inr == [j \in 1..Len(entries) |-> within_range(ts[j], since_str, until_str)]
             uq  == DedupFrom(1, {}, <<>>, ts, inr)
         IN  /\ cand_ts' = ts
             /\ in_range' = inr
             /\ unique' = uq
             /\ wall' = wall + SumTo(tick, Len(entries))
             /\ p_pc' = IF uq = <<>> THEN "nothing" ELSE "deduped"
    /\ UNCHANGED <<coreVars, fsVars, guiVars, prepIn, sort_key, finish_ts, overrides, req_ts>>

\* main, lines 633-655; _worker_start, lines 245-251: sort, limit, import mode
PrepSort ==
    /\ p_pc = "deduped"
    /\ \E tick \in Ticks :
         LET clock == wall + tick
             key   == [j \in 1..Len(entries) |-> compute_start_timestamp(entries[j], clock)]
             srt   == SortBy(unique, key)
             lim   == IF limit_s # "" /\ IntText(limit_s).ok
                      THEN Truncate(srt, IntText(limit_s).n) ELSE srt
             fin   == parse_finish_at(finish_at, clock)
         IN  /\ wall' = clock
             /\ sort_key' = key
             /\ unique' = lim
             /\ finish_ts' = IF import_mode THEN fin ELSE 0
             /\ overrides' = IF import_mode
                             THEN apply_import_mode(Len(PrepTail(lim)), fin, gap_sec)
                             ELSE <<>>
             /\ p_pc' = IF PrepTail(lim) = <<>> THEN "done" ELSE "sorted"
    /\ UNCHANGED <<coreVars, fsVars, guiVars, prepIn, cand_ts, in_range, req_ts>>

\* build_scrobble_params, lines 370-375, of the first batch, and its request
PrepSend ==
    /\ p_pc = "sorted"
    /\ \E tick \in (IF import_mode THEN {0} ELSE Ticks) :
         LET clock == wall + tick
             tl    == PrepTail(unique)
         IN  /\ wall' = clock
             /\ req_ts' = [k \in 1..Len(tl) |->
                             IF import_mode THEN overrides[k]
                             ELSE compute_start_timestamp(entries[tl[k]], clock)]
    /\ p_pc' = "sent"
    /\ UNCHANGED <<coreVars, fsVars, guiVars, prepIn, cand_ts, in_range, unique, sort_key,
                   finish_ts, overrides>>

NextPrep ==
    \/ PrepReject
    \/ PrepDedup
    \/ PrepSort
    \/ PrepSend

SpecPrep == InitPrep /\ [][NextPrep]_vars

\* ----------------------------------- SpecTs: compute_start_timestamp(), alone

\* the start of the play that ended at 2024-01-01T00:05:00Z after 300000 ms
ExampleStart == 1704067200

TsValues ==
    {TsAbsent, TsText("yesterday"), TsText("2024-01-01T00:05:00Z"),
     TsNum(ExampleStart + 300), TsNum(3600)}
MsValues == {30000, 30999, 300000}
OffValues ==
    {OffNone, OffText, OffInt(0),
     OffInt(ExampleStart + WEEK), OffInt(ExampleStart + WEEK + 1),
     OffInt(ExampleStart - WEEK), OffInt(ExampleStart - WEEK - 1)}
TsClocks == {NowStart, ExampleStart + WEEK + 300}

InitTs ==
    /\ InitMain /\ InitSubmitIdle /\ InitFsIdle /\ InitGuiIdle
    /\ frontend = "cli" /\ since_str = None /\ until_str = None
    /\ limit_s = "" /\ import_mode = FALSE /\ gap_sec = 1 /\ finish_at = "now"
    /\ p_off = 0
    /\ \E ts \in TsValues, ms \in MsValues, offl \in OffValues :
         entries = <<Entry("A", "T", ts, ms, offl)>>
    /\ wall \in TsClocks
    /\ p_pc = "ts_call"
    /\ cand_ts = <<>> /\ in_range = <<>> /\ unique = <<>> /\ sort_key = <<>>
    /\ finish_ts = 0 /\ overrides = <<>> /\ req_ts = <<>>

\* one call of compute_start_timestamp on the record
TsCompute ==
    /\ p_pc = "ts_call"
    /\ cand_ts' = <<compute_start_timestamp(entries[1], wall)>>
    /\ p_pc' = "ts_returned"
    /\ UNCHANGED <<coreVars, fsVars, guiVars, prepIn, wall, in_range, unique, sort_key,
                   finish_ts, overrides, req_ts>>

NextTs == TsCompute

SpecTs == InitTs /\ [][NextTs]_vars

\* ------------------------- SpecGui: ScrobbleGUI, the Tk thread and the worker

MaxEdits == 2
MaxStarts == 2

\* the totals a worker may find: nothing, one batch, two batches
GuiTotals == {0, 1, BATCH + 1}

InitGui ==
    /\ InitMain /\ InitSubmitIdle /\ InitFsIdle /\ InitPrepIdle
    /\ g_pc = "none" /\ btn_start = "normal" /\ progress = 0 /\ txt = 0
    /\ ui_dry_run \in BOOLEAN /\ ui_since = "" /\ edits = 0 /\ starts = 0
    /\ g_total = 0 /\ g_i = 0 /\ g_dry = FALSE
    /\ worker_reads = {} /\ worker_touched = {}

\* on_start with the keys and the paths filled in, lines 185-188, and _run_thread,
\* lines 190-192, on the Tk thread: the button is disabled, the bar and the text
\* are cleared, the worker thread is started
UiOnStart ==
    /\ btn_start = "normal"
    /\ starts < MaxStarts
    /\ starts' = starts + 1
    /\ btn_start' = "disabled" /\ progress' = 0 /\ txt' = 0
    /\ g_pc' = "collect" /\ g_i' = 0 /\ g_total' = 0
    /\ UNCHANGED <<coreVars, fsVars, prepVars, ui_dry_run, ui_since, edits, g_dry,
                   worker_reads, worker_touched>>

\* the user, on the Tk thread, ticks "Dry run" or types a date while a worker runs
\* or not
UiEdit ==
    /\ edits < MaxEdits
    /\ edits' = edits + 1
    /\ \/ ui_dry_run' = ~ui_dry_run /\ UNCHANGED ui_since
       \/ ui_since' = (IF ui_since = "" THEN "2024-02-01" ELSE "") /\ UNCHANGED ui_dry_run
    /\ UNCHANGED <<coreVars, fsVars, prepVars, g_pc, btn_start, progress, txt, starts,
                   g_total, g_i, g_dry, worker_reads, worker_touched>>

\* _worker_start, lines 218-226 and 283, on the worker thread: self.log (ScrobbleGUI.log,
\* lines 125-126, inserts into self.txt) three times, then either nothing to
\* scrobble (a fourth line, the button, return, the button again in finally) or on
WkCollect ==
    /\ g_pc = "collect"
    /\ \E n \in GuiTotals :
         /\ g_total' = n
         /\ IF n = 0
            THEN /\ txt' = txt + 4
                 /\ btn_start' = "normal"
                 /\ worker_touched' = worker_touched \cup {"txt", "btn_start"}
                 /\ g_pc' = "none"
            ELSE /\ txt' = txt + 3
                 /\ worker_touched' = worker_touched \cup {"txt"}
                 /\ g_pc' = "filter"
                 /\ UNCHANGED btn_start
    /\ UNCHANGED <<coreVars, fsVars, prepVars, progress, ui_dry_run, ui_since, edits,
                   starts, g_i, g_dry, worker_reads>>

\* lines 229-256 and 283: self.vars["since"], ["until"] and ["limit"] are read with .get(),
\* the working set is built, one more line is logged; when the range leaves
\* nothing, the button is enabled and the worker returns
WkFilter ==
    /\ g_pc = "filter"
    /\ worker_reads' = worker_reads \cup {"since", "until", "limit"}
    /\ txt' = txt + 1
    /\ \/ /\ g_pc' = "batch"
          /\ worker_touched' = worker_touched \cup {"txt"}
          /\ UNCHANGED <<btn_start, g_total>>
       \/ /\ ui_since # ""
          /\ g_total' = 0
          /\ btn_start' = "normal"
          /\ worker_touched' = worker_touched \cup {"txt", "btn_start"}
          /\ g_pc' = "none"
    /\ UNCHANGED <<coreVars, fsVars, prepVars, progress, ui_dry_run, ui_since,
                   edits, starts, g_i, g_dry>>

\* lines 259-277, one pass of the loop: a line is logged, four Tk variables are
\* read for submit_batch, a warning is logged when nothing was accepted, the
\* progress bar is set (its whole part is kept here), dry_run is read again for
\* the sleep
WkBatch ==
    /\ g_pc = "batch"
    /\ g_dry' = ui_dry_run
    /\ worker_reads' = worker_reads \cup {"dry_run", "debug", "include_duration", "no_chosen"}
    /\ \E accepted \in {0, Min(BATCH, g_total - g_i)} :
         txt' = txt + (IF accepted > 0 THEN 1 ELSE 2)
    /\ progress' = ((g_i + Min(BATCH, g_total - g_i)) * 100) \div Max(1, g_total)
    /\ worker_touched' = worker_touched \cup {"txt", "progress"}
    /\ IF g_i + BATCH < g_total
       THEN g_i' = g_i + BATCH /\ g_pc' = "batch"
       ELSE g_i' = g_i /\ g_pc' = "finish"
    /\ UNCHANGED <<coreVars, fsVars, prepVars, btn_start, ui_dry_run, ui_since, edits,
                   starts, g_total>>

\* lines 279 and 283: the last line, which reads dry_run, and the button
WkFinish ==
    /\ g_pc = "finish"
    /\ worker_reads' = worker_reads \cup {"dry_run"}
    /\ txt' = txt + 1
    /\ btn_start' = "normal"
    /\ worker_touched' = worker_touched \cup {"txt", "btn_start"}
    /\ g_pc' = "none"
    /\ UNCHANGED <<coreVars, fsVars, prepVars, progress, ui_dry_run, ui_since, edits,
                   starts, g_total, g_i, g_dry>>

\* lines 261-271 and 280-283: submit_batch raises after the line of the pass was
\* logged; the error is logged and the button enabled
WkError ==
    /\ g_pc = "batch"
    /\ worker_reads' = worker_reads \cup {"dry_run", "debug", "include_duration", "no_chosen"}
    /\ g_dry' = ui_dry_run
    /\ txt' = txt + 2
    /\ btn_start' = "normal"
    /\ worker_touched' = worker_touched \cup {"txt", "btn_start"}
    /\ g_pc' = "none"
    /\ UNCHANGED <<coreVars, fsVars, prepVars, progress, ui_dry_run, ui_since, edits,
                   starts, g_total, g_i>>

NextGui ==
    \/ UiOnStart
    \/ UiEdit
    \/ WkCollect
    \/ WkFilter
    \/ WkBatch
    \/ WkFinish
    \/ WkError

SpecGui == InitGui /\ [][NextGui]_vars

\* ------------------------------------------------------------------ claims

\* C1: over runs on an unchanged input set and unchanged filters, killed at any
\* point, no request carries a record the service accepted in an earlier request:
\* every record is accepted exactly once.
C1_ExactlyOnce == ~resent

\* C2: once a run has called save_state, the persisted offset is the run's starting
\* offset plus the sum of the accepted counts of its batches so far.
C2_OffsetIsStartPlusAccepted ==
    savedThisRun => stateFile.offset = resume_offset + submitted

\* C3: a run that finds offset = k under its own signature in the state file sends
\* no record at an index below k.
C3_ResumeSkipsPrefix ==
    (runs > 0 /\ fileAtRunStart.present /\ fileAtRunStart.sig = sig)
        => \A r \in lastSent : r >= fileAtRunStart.offset

C3_Witness ==
    /\ fileAtRunStart.present /\ fileAtRunStart.sig = sig
    /\ fileAtRunStart.offset > 0
    /\ lastSent # {}

\* C4: a run whose since, until, input size or input modification time differs from
\* those of the run that wrote the state file starts at offset 0.
C4_AnyChangeInvalidates ==
    (runs > 0 /\ fileAtRunStart.present
       /\ <<fileAtRunStart.since, fileAtRunStart.until, fileAtRunStart.wsize,
            fileAtRunStart.wmtime_ms>> # runCfg)
        => resume_offset = 0

\* C5: as long as no batch of a run resolved with accepted > 0, the run has not
\* called save_state and the state file is the one the run found.
C5_NoAcceptanceNoSave ==
    (runs > 0 /\ submitted = 0) => (~savedThisRun /\ stateFile = fileAtRunStart)

C5_Witness ==
    /\ pc = "done" /\ submitted = 0 /\ zeroStarts # {}
    /\ Cardinality(zeroStarts) > 1
    /\ fileAtRunStart.present

\* C7: a run following, on the same inputs and filters, a run in which the batch
\* starting at index j resolved with accepted = 0 starts at an offset <= j.
C7_ZeroBatchRetried ==
    \A j \in prevZeroStarts : resume_offset <= j

\* C8: the starting offset of a run, and the offset the run persists, lie in
\* 0 .. total_count of the run's working set.
C8_OffsetWithinTotal ==
    runs > 0 =>
        /\ resume_offset \in 0..total_all
        /\ savedThisRun => stateFile.offset \in 0..total_all

Ladder == <<30, 60, 120, 240, 480, 960>>

C9_HttpErrorIsFatal ==
    lastResp = "http_error" => (sb_pc = "raised" /\ lastWaits = <<>>)

\* C11: after a rate-limit response (HTTP 429 with any Retry-After header, or a
\* body with error = 29) submit_batch has slept and is about to send again: it
\* has neither raised nor returned.
C11_RateLimitNeverFatal ==
    lastResp \in {"http429", "error29"} => (sb_pc = "send" /\ lastWaits # <<>>)

\* C20: the outcome submit_batch returns has accepted <= len(batch).
C20_AcceptedWithinBatch ==
    sb_pc = "returned" => result.accepted <= batch_len

\* C17: a run with dry_run set sends no request, gets accepted = 0 for every
\* batch and leaves the state file as it found it.
C17_DryRunLeavesState ==
    (runs > 0 /\ dry) =>
        /\ lastSent = {}
        /\ res = 0 /\ submitted = 0
        /\ ~savedThisRun /\ stateFile = fileAtRunStart

C17_Witness ==
    /\ dry /\ pc = "done" /\ total > BATCH
    /\ Cardinality(zeroStarts) > 1
    /\ fileAtRunStart.present

\* C12: whatever the state file holds that is not a state written for the current
\* signature (missing, unreadable, not JSON, JSON that is no object, sig or offset
\* missing or of another type), the run does not abort and starts at offset 0.
NoPriorState(c) ==
    \/ c.kind # "object"
    \/ c.sig # "match"
    \/ c.okind # "int"

C12_BadStateFileIsFreshStart ==
    (sv_pc \in {"running", "aborted"} /\ saves = 0 /\ NoPriorState(fs[state_path]))
        => (~ld_out.aborted /\ ld_out.offset = 0 /\ sv_pc = "running")

\* C19: while save_state runs, and after a kill inside it, the state file holds
\* either the complete previous state or the complete new one.
C19_SaveIsAtomic ==
    sv_pc \in {"opened", "written", "killed"} => fs[state_path] \in {sv_old, sv_new}

\* C13: when since or until is not a date, or the limit is not a number, the run
\* stops before its dedup loop: it never filters, sorts or sends with the bad
\* value ignored.
Malformed ==
    \/ (since_str # None /\ ~fromisoformat(since_str).ok)
    \/ (until_str # None /\ ~fromisoformat(until_str).ok)
    \/ BadLimit

C13_MalformedFilterStopsRun ==
    Malformed => p_pc \in {"start", "rejected"}

\* C14: once sorted, the working set has no two records with the same
\* (artist, track, start_ts), holds for each key the first candidate in range that
\* has it, and is in non-decreasing order of start_ts.
WorkingKey(j) == <<entries[j].artist, entries[j].track, sort_key[j]>>

C14_WorkingSetDedupedSorted ==
    (p_pc \in {"sorted", "sent"} /\ limit_s = "") =>
        /\ \A a, b \in 1..Len(unique) :
               a # b => WorkingKey(unique[a]) # WorkingKey(unique[b])
        /\ \A a \in 1..Len(unique) : \A j \in 1..Len(entries) :
               (in_range[j] /\ WorkingKey(j) = WorkingKey(unique[a])) => unique[a] <= j
        /\ \A a, b \in 1..Len(unique) :
               a < b => sort_key[unique[a]] <= sort_key[unique[b]]

\* C15: the start_ts of a record is the same at each moment of the run it is
\* computed at: for the dedup key, for the sort key and for the request.
C15_StartTimestampPure ==
    /\ p_pc \in {"sorted", "sent", "done"} =>
           \A j \in 1..Len(entries) : sort_key[j] = cand_ts[j]
    /\ (p_pc = "sent" /\ ~import_mode) =>
           \A k \in 1..Len(req_ts) : req_ts[k] = cand_ts[PrepTail(unique)[k]]

\* C16: with since 2024-02-01 and until 2024-03-01, a candidate is in range iff
\* 2024-02-01T00:00:00Z <= start_ts < 2024-03-01T00:00:00Z; with one bound only,
\* that bound alone decides.
C16_SinceInclusiveUntilExclusive ==
    p_pc \in {"deduped", "nothing", "sorted", "done", "sent"} =>
        \A j \in 1..Len(entries) :
            /\ (since_str = "2024-02-01" /\ until_str = "2024-03-01") =>
                   (in_range[j] <=> (1706745600 <= cand_ts[j] /\ cand_ts[j] < 1709251200))
            /\ (since_str = "2024-02-01" /\ until_str = None) =>
                   (in_range[j] <=> 1706745600 <= cand_ts[j])
            /\ (since_str = None /\ until_str = "2024-03-01") =>
                   (in_range[j] <=> cand_ts[j] < 1709251200)

C16_Witness ==
    /\ p_pc = "sent"
    /\ since_str = "2024-02-01" /\ until_str = "2024-03-01"
    /\ Len(entries) = 2
    /\ cand_ts[1] = 1709251200 /\ ~in_range[1]
    /\ cand_ts[2] = 1706745600 /\ in_range[2]
    /\ unique = <<2>>

\* C18: in import mode the record at index i of the n re-dated ones gets
\* finish_at - (n-1-i)*gap_sec: neighbours are gap_sec apart, the last is on
\* finish_at.
C18_ImportSpacing ==
    (p_pc \in {"sorted", "sent"} /\ import_mode) =>
        LET n == Len(PrepTail(unique))
        IN  /\ Len(overrides) = n
            /\ \A k \in 1..n : overrides[k] = finish_ts - (n - k) * gap_sec

\* C21: a structured success response that reports accepted = 0 makes submit_batch
\* print its warning and return, never raise; main then saves nothing for the
\* batch and calls submit_batch on the next one.
C21_ZeroAcceptedGoesOn ==
    /\ (lastResp = "scrobbles" /\ result.accepted = 0) => (sb_pc = "returned" /\ warned)
    /\ (sb_pc = "returned" /\ lastResp = "scrobbles" /\ result.accepted = 0
          /\ batch_len = BATCH /\ i + BATCH < MaxBatches * BATCH)
         => ENABLED SbNextBatch

C21_Witness ==
    /\ sb_pc = "start" /\ i = BATCH
    /\ res = 0 /\ result.accepted = 0 /\ warned
    /\ submitted = 0 /\ stateFile = NoFile

\* C22: the k-th transport failure of a call is followed by a sleep of
\* min(300, 5 * k) seconds and another request, and is raised once k has reached
\* max_attempts.
C22_NetworkWaitByFailures ==
    lastResp = "network_error" =>
        IF net_fails >= max_attempts
        THEN sb_pc = "raised"
        ELSE /\ sb_pc = "send"
             /\ lastWaits = <<Slept("net", Min(NET_WAIT_CAP, NET_WAIT_STEP * net_fails))>>

\* C23: a sleep to the next UTC midnight follows only a rate-limit response that
\* is at least the sixth in a row, with no other outcome in between.
C23_MidnightAfterSixInARow ==
    (Len(lastWaits) = 2 /\ lastWaits[2].why = "midnight") => streak >= MIDNIGHT_AFTER

\* C27: after a rate-limit response, HTTP 429 or error = 29, that carries a retry
\* hint the sleep is max(5, hint); without a hint it is the backoff value, between
\* 30 and 3600, and the next backoff value is its double, capped at 3600.
C27_HintElseBackoff ==
    (lastResp \in {"http429", "error29"} /\ sb_pc = "send") =>
        IF lastHint.k = "num"
        THEN lastWaits[1] = Slept("rate", Max(RETRY_AFTER_FLOOR, lastHint.v))
        ELSE /\ lastWaits[1].why = "rate"
             /\ lastWaits[1].secs \in BACKOFF_START..BACKOFF_CAP
             /\ backoff = Min(BACKOFF_CAP, 2 * lastWaits[1].secs)

\* C30: the rate-limit responses without a hint that follow the midnight sleep of
\* the sixth sleep 1920, 3600, 3600 seconds: the backoff goes on from 960, and
\* only the counter starts again.
AfterMidnight == <<1920, 3600, 3600>>

SliceAt(j) == {resume_offset + k : k \in j..(Min(j + BATCH, total) - 1)}

C24_BatchesPartitionTail ==
    /\ [](/\ (pc = "responded" /\ ~dry) =>
                 (lastSent = SliceAt(i) /\ Cardinality(lastSent) \in 1..BATCH)
          /\ Running => (i % BATCH = 0 /\ i < total)
          /\ pc = "done" => i + BATCH >= total)
    /\ [][/\ (pc' = "responded" /\ pc # "responded") => (pc = "loop" /\ i' = i)
          /\ (pc = "responded" /\ pc' = "loop") => i' = i + BATCH
          /\ (pc' = "loop" /\ pc \notin {"loop", "responded"}) => i' = 0]_vars

C24_Witness ==
    /\ pc = "responded" /\ ~dry /\ resume_offset > 0
    /\ i > 0 /\ i + BATCH > total
    /\ Cardinality(lastSent) \in 1..(BATCH - 1)

EndInstant(entry, clock) ==
    CASE entry.ts.k = "num" -> entry.ts.n
      [] entry.ts.k = "str" /\ parse_spotify_iso(entry.ts.v).ok ->
            parse_spotify_iso(entry.ts.v).epoch
      [] OTHER -> clock

C25_StartIsEndMinusPlayed ==
    (p_pc = "ts_returned" /\ entries[1].offline_timestamp.k = "none") =>
        /\ cand_ts[1] = EndInstant(entries[1], wall) - entries[1].ms_played \div 1000
        /\ (entries[1].ts = TsText("2024-01-01T00:05:00Z") /\ entries[1].ms_played = 300000)
             => cand_ts[1] = 1704067200

C28_WorkerLeavesUiAlone ==
    worker_reads = {} /\ worker_touched = {}

\* the answers that are neither a rate-limit signal nor a transport or HTTP error
GoodAnswers == {"scrobbles", "legacy_ok", "unexpected"}

\* C31: a submit_batch call ends only by returning, and only on an answer that is
\* neither a rate-limit signal nor a transport or HTTP error: such an answer makes
\* the call return, and as long as every answer of the call was a rate-limit
\* signal (HTTP 429 or error = 29) the call has neither returned nor raised.
C31_EndsOnlyOnAnswer ==
    /\ lastResp \in GoodAnswers => sb_pc = "returned"
    /\ (attempt > 0 /\ streak = attempt) => sb_pc \notin {"returned", "raised"}

====
